---- MODULE Spec2Model ----
(***************************************************************************)
(* Model of the call-processing pipeline of AI_Call_Center_Assistant:      *)
(* CallCenterWorkflow (agents/workflow.py) driving the transcription,      *)
(* content-safety, intake, summarization, scoring and storage agents, and  *)
(* the files the agents keep under data_storage_call_center/.              *)
(*                                                                         *)
(* Runs are sequential: one call of CallCenterWorkflow.process at a time.  *)
(* The external capabilities (speech-to-text, moderation, the LLM) answer  *)
(* nondeterministically; the file system is taken to be reliable.          *)
(***************************************************************************)
EXTENDS Integers, Sequences, FiniteSets, TLC

\* ------------------------------------------------------------------ bounds
\* Number of calls of process() in one behaviour.
MaxRuns == 2
\* The seconds the wall clock shows while the runs take place: two runs fall
\* in the same second or in different ones.
Seconds == {0, 1}

\* ------------------------------------------------------- program constants
MinChars == 50
MaxChars == 100000
MinTerminators == 3
MinWords == 20
RepeatCheckWords == 10

\* ------------------------------------------------------------ Python values
\* None for string-valued fields; None for object-valued fields is the empty
\* tuple and an object x is <<x>>.
NONE == "None"
Nothing == <<>>
Some(x) == <<x>>
IsSome(o) == Len(o) = 1
Val(o) == o[1]

\* str.strip() on the names the model draws from.
Strip(s) == IF s \in {"", " "} THEN "" ELSE s
\* Truthiness of an Optional[str].
Truthy(s) == s # NONE /\ s # ""

\* --------------------------------------------------------- rational numbers
\* Scores are Python floats; the model keeps them as exact fractions <<n, d>>.
RECURSIVE GCD(_, _)
GCD(a, b) == IF b = 0 THEN a ELSE GCD(b, a % b)
Abs(x) == IF x < 0 THEN -x ELSE x
Rat(n, d) ==
    LET g == GCD(Abs(n), d) IN IF g = 0 THEN <<0, 1>> ELSE <<n \div g, d \div g>>
Num(i) == <<i, 1>>
RAdd(a, b) == Rat(a[1] * b[2] + b[1] * a[2], a[2] * b[2])
RMulInt(a, k) == Rat(a[1] * k, a[2])
RDivInt(a, k) == Rat(a[1], a[2] * k)
RLeq(a, b) == a[1] * b[2] <= b[1] * a[2]
RECURSIVE RSum(_)
RSum(s) == IF s = <<>> THEN Num(0) ELSE RAdd(s[1], RSum(Tail(s)))
\* round(x, 2), in hundredths, ties to even.
Round2(a) ==
    LET q == (a[1] * 100) \div a[2]
        r == (a[1] * 100) % a[2]
    IN  IF 2 * r > a[2] \/ (2 * r = a[2] /\ q % 2 = 1) THEN q + 1 ELSE q

\* ------------------------------------------------------------------ inputs
\* A transcript is described by what the code reads from it: raw names the
\* text itself, norm is the text
\* after lower(), strip() and whitespace collapsing (two texts with the same
\* norm differ only in case and spacing), len and slen its length before and
\* after strip(), pattern whether a speaker label occurs, terms the number of
\* '.', '!' and '?', music whether a music marker occurs, special the number
\* of characters that are neither alphanumeric nor space, words and uniq the
\* number of words and of distinct words, enc whether it encodes as UTF-8.
Text(raw, norm, len, slen, pattern, terms, music, special, words, uniq, enc) ==
    [raw |-> raw, norm |-> norm, len |-> len, slen |-> slen, pattern |-> pattern,
     terms |-> terms, music |-> music, special |-> special, words |-> words,
     uniq |-> uniq, enc |-> enc]

EmptyText == Text("", "", 0, 0, FALSE, 0, FALSE, 0, 0, 0, TRUE)
BlankText == Text("   ", "", 3, 0, FALSE, 0, FALSE, 0, 0, 0, TRUE)
ShortText == Text("short", "short", 30, 30, TRUE, 1, FALSE, 2, 6, 6, TRUE)
\* One dialogue written with runs of spaces, and the same dialogue written
\* with single spaces: 20 words, the second below MinChars.
DialogueA == Text("dialogue  a", "dialogue a", 62, 60, TRUE, 4, FALSE, 8, 20, 18, TRUE)
DialogueACompact == Text("dialogue a", "dialogue a", 45, 45, TRUE, 4, FALSE, 8, 20, 18, TRUE)
DialogueB == Text("dialogue b", "dialogue b", 400, 400, TRUE, 12, FALSE, 30, 70, 50, TRUE)
Lyrics == Text("lyrics", "lyrics", 120, 120, FALSE, 5, TRUE, 6, 25, 20, TRUE)
\* A short text holding a lone surrogate.
Unencodable == Text("surrogate", "surrogate", 30, 30, TRUE, 1, FALSE, 2, 6, 6, FALSE)

Texts ==
    {EmptyText, BlankText, ShortText, DialogueA, DialogueACompact, DialogueB,
     Lyrics, Unencodable}

\* What the speech-to-text capability returns for the audio files.
Transcriptions == {EmptyText, DialogueB}

\* Paths given as audio input: none, a missing file, a file with an
\* unsupported extension, a supported audio file.
AudioPaths == {"", "missing.wav", "call.txt", "call.wav"}
PathExists(p) == p \in {"call.txt", "call.wav"}
SupportedFormat(p) == p \in {"missing.wav", "call.wav"}

\* What the moderation capability answers: the flagged categories, or a
\* failure of the service.
ModerationAnswers ==
    {[failed |-> TRUE, categories |-> <<>>]}
    \cup {[failed |-> FALSE, categories |-> c] :
            c \in {<<>>, <<"harassment", "violence">>}}

\* CallMetadata as the LLM extracts it.
Metadata(id, agent) ==
    [call_id |-> id, caller_name |-> NONE, agent_name |-> agent,
     call_duration |-> NONE, date_time |-> NONE]
Metadatas == {Metadata(NONE, " "), Metadata(NONE, "alice"), Metadata("C-100", "bob")}
\* ValidationAndMetadata answers; the metadata field is optional.
ValidationAnswers ==
    {[is_valid |-> FALSE, validation_reason |-> "monologue", metadata |-> Nothing]}
    \cup {[is_valid |-> TRUE, validation_reason |-> "dialogue", metadata |-> m] :
            m \in {Nothing} \cup {Some(x) : x \in Metadatas}}

\* Answers of the turn-extraction call: JSON with a conversation and turns.
Turn(speaker, text) == [speaker |-> speaker, text |-> text]
\* The second one parses, but its conversation is null.
ExtractionAnswers ==
    {[conversation |-> "Agent: Hello. Caller: Hi.",
      turns |-> <<Turn("Agent", "Hello."), Turn("Caller", "Hi.")>>],
     [conversation |-> NONE, turns |-> <<>>]}

CallSummaryAnswer ==
    [brief_summary |-> "summary", key_points |-> <<"point">>,
     customer_issue |-> NONE, resolution |-> NONE, action_items |-> <<>>]

\* A QualityScore the structured parse accepts: any five numbers.
Score(overall, tone, prof, res, resp, feedback, strengths, areas) ==
    [overall_score |-> overall, tone_score |-> tone,
     professionalism_score |-> prof, resolution_score |-> res,
     response_time_score |-> resp, feedback |-> feedback,
     strengths |-> strengths, areas_for_improvement |-> areas]
StructuredAnswers ==
    {Score(Num(8), Num(9), Num(8), Num(7), Num(8), "good", <<"empathy">>, <<>>)}

\* A free-text answer of the quality capability, described by what the five
\* score patterns of the fallback find in it (Nothing: no match).
FreeText(tone, prof, res, resp, overall) ==
    [tone |-> tone, professionalism |-> prof, resolution |-> res,
     response_time |-> resp, overall |-> overall]
\* The free texts the runs of the pipeline draw from: no score at all, a
\* single labelled dimension, and two labelled dimensions.
FreeTextAnswers ==
    {FreeText(Nothing, Nothing, Nothing, Nothing, Nothing),
     FreeText(Some(Num(8)), Nothing, Nothing, Nothing, Nothing),
     FreeText(Some(Num(8)), Some(Num(6)), Nothing, Nothing, Nothing)}

\* ------------------------------------------------- CallIntakeAgent helpers
\* _compute_transcript_hash: SHA-256 of the normalized text; the digest is
\* identified with the text it was computed from (no collisions).
ComputeTranscriptHash(t) == t.norm

ErrTooShort == "Transcript too short (minimum 50 characters)"
ErrTooLong == "Transcript too long. Maximum 100,000 characters allowed."
ErrNoDialogue == "Does not appear to be a conversation transcript (no speaker labels or dialogue detected)"
ErrMusic == "Appears to be music or lyrics, not a call center conversation"
ErrGibberish == "Transcript contains excessive special characters or appears to be gibberish"
ErrFewWords == "Transcript too short (too few words). Minimum 20 words required."
ErrSpam == "Transcript appears to be repetitive or spam"
ErrEncoding == "Transcript contains invalid characters or encoding issues"

\* Variant: the length floor is missing from the pre-validation chain.
PreValidateTranscript_NoFloor(t) ==
    IF t.slen > MaxChars THEN ErrTooLong
    ELSE IF ~t.pattern /\ t.terms < MinTerminators THEN ErrNoDialogue
    ELSE IF t.music THEN ErrMusic
    ELSE IF t.len > 0 /\ 10 * t.special > 3 * t.len THEN ErrGibberish
    ELSE IF t.words < MinWords THEN ErrFewWords
    ELSE IF t.words > RepeatCheckWords /\ 10 * t.uniq < 3 * t.words THEN ErrSpam
    ELSE IF ~t.enc THEN ErrEncoding
    ELSE NONE

\* Variant: the word count is tested before the music markers.
PreValidateTranscript_WordsFirst(t) ==
    IF t.slen < MinChars THEN ErrTooShort
    ELSE IF t.slen > MaxChars THEN ErrTooLong
    ELSE IF ~t.pattern /\ t.terms < MinTerminators THEN ErrNoDialogue
    ELSE IF t.words < MinWords THEN ErrFewWords
    ELSE IF t.music THEN ErrMusic
    ELSE IF t.len > 0 /\ 10 * t.special > 3 * t.len THEN ErrGibberish
    ELSE IF t.words > RepeatCheckWords /\ 10 * t.uniq < 3 * t.words THEN ErrSpam
    ELSE IF ~t.enc THEN ErrEncoding
    ELSE NONE

\* _pre_validate_transcript: the first failing check, or NONE.
PreValidateTranscript(t) ==
    IF t.slen < MinChars THEN ErrTooShort
    ELSE IF t.slen > MaxChars THEN ErrTooLong
    ELSE IF ~t.pattern /\ t.terms < MinTerminators THEN ErrNoDialogue
    ELSE IF t.music THEN ErrMusic
    ELSE IF t.len > 0 /\ 10 * t.special > 3 * t.len THEN ErrGibberish
    ELSE IF t.words < MinWords THEN ErrFewWords
    ELSE IF t.words > RepeatCheckWords /\ 10 * t.uniq < 3 * t.words THEN ErrSpam
    ELSE IF ~t.enc THEN ErrEncoding
    ELSE NONE

\* ---------------------------------------------- QualityScoringAgent helpers
FallbackKeys == <<"tone", "professionalism", "resolution", "response_time">>
\* The individual scores the patterns found, in rubric order.
FoundScores(raw) ==
    LET pick(i) == raw[FallbackKeys[i]]
        F[i \in 0..4] == IF i = 0 THEN <<>> ELSE F[i - 1] \o pick(i)
    IN  F[4]
PartialFeedback(k) ==
    CASE k = 1 -> "Partial extraction (1 scores found)"
      [] k = 2 -> "Partial extraction (2 scores found)"
      [] k = 3 -> "Partial extraction (3 scores found)"
      [] k = 4 -> "Partial extraction (4 scores found)"
      [] OTHER -> "Partial extraction (5 scores found)"
OrElse(o, d) == IF IsSome(o) THEN Val(o) ELSE d

\* _create_fallback_score: Nothing (None) or a QualityScore.
CreateFallbackScore(raw) ==
    LET found == FoundScores(raw)
        \* overall: the labelled one, else the mean of the dimensions found
        overall ==
            IF IsSome(raw.overall) THEN raw.overall
            ELSE IF found # <<>> THEN Some(RDivInt(RSum(found), Len(found)))
            ELSE Nothing
        extracted == Len(found) + Len(overall)
        has_enough_data == IsSome(overall) \/ extracted >= 2
    IN  IF ~has_enough_data THEN Nothing
        ELSE Some(Score(OrElse(overall, Num(0)), OrElse(raw.tone, Num(0)),
                        OrElse(raw.professionalism, Num(0)),
                        OrElse(raw.resolution, Num(0)),
                        OrElse(raw.response_time, Num(0)),
                        PartialFeedback(extracted),
                        <<"Professional communication">>,
                        <<"Manual review needed - automated scoring incomplete">>))

\* ------------------------------------------------------------------- state
VARIABLES
    hashes,             \* transcript_hashes.json: the list "hashes"
    call_files,         \* calls/<call_id>.json: the records, one per call_id
    calls_db,           \* calls_database.json: the list "calls"
    scores_csv,         \* quality_scores.csv: the rows
    agent_performance,  \* agent_performance.csv: the rows
    clock,              \* datetime.now(), in seconds
    pc,                 \* the node the running graph is at; "idle" between runs
    st,                 \* the GraphState of the current (or the last) run
    ext,                \* the external capabilities invoked by the run, in order
    trace,              \* the nodes the run has entered, in order
    before,             \* the files as they were when the run started
    earlier,            \* normalized transcripts of the runs that have returned
    runs,               \* number of calls of process() so far
    workers             \* the runs in progress when the service runs several at once

vars ==
    <<hashes, call_files, calls_db, scores_csv, agent_performance, clock, pc,
      st, ext, trace, before, earlier, runs, workers>>
files == <<hashes, call_files, calls_db, scores_csv, agent_performance>>

Store ==
    [hashes |-> hashes, call_files |-> call_files, calls_db |-> calls_db,
     scores_csv |-> scores_csv, agent_performance |-> agent_performance]

\* CallCenterWorkflow.process: the initial GraphState.
InitialState(input_type, text, path) ==
    [input_type |-> input_type,
     input_content |-> [text |-> text, path |-> path],
     transcript |-> IF input_type = "text" THEN text ELSE Nothing,
     call_data |-> Nothing,
     summary |-> Nothing,
     quality_score |-> Nothing,
     storage_path |-> NONE,
     error |-> NONE,
     validation_failed |-> FALSE,
     needs_manual_review |-> FALSE,
     content_safety_passed |-> TRUE,
     content_safety_details |-> Nothing,
     processing_steps |-> <<>>]

\* The value of st while no run is in progress.
IdleState == InitialState("text", Some(EmptyText), "")

\* LangGraph writes a node's return value into the state: every key replaces
\* the old value, except processing_steps, whose reducer is operator.add.
Merge(old, update) ==
    [update EXCEPT !.processing_steps = old.processing_steps \o update.processing_steps]
\* return {**state, "processing_steps": steps}
WithSteps(s, steps) == [s EXCEPT !.processing_steps = steps]

\* `not transcript`: None or the empty string.
NoTranscript(s) == s.transcript = Nothing \/ Val(s.transcript).len = 0

\* Variant: the capability is called a second time (a retry).
Called_Retried(cap, answer) ==
    Append(Append(ext, [cap |-> cap, answer |-> answer]), [cap |-> cap, answer |-> answer])

Called(cap, answer) == Append(ext, [cap |-> cap, answer |-> answer])
Invocations(cap) == Cardinality({i \in DOMAIN ext : ext[i].cap = cap})

\* ----------------------------------------------------------------- routers
\* Variant: every input is sent to transcription first.
RouteEntry_AlwaysTranscribes(s) == "transcription"

RouteEntry(s) == IF s.input_type = "audio" THEN "transcription" ELSE "content_safety"

\* Variant: the router after the safety check does not test the error.
ShouldContinueAfterSafetyCheck_IgnoresError(s) ==
    IF ~s.content_safety_passed THEN "data_storage" ELSE "call_intake"

\* Variant: there is no flagged branch, only the error test.
ShouldContinueAfterSafetyCheck_NoFlaggedBranch(s) ==
    IF s.error # NONE THEN "end" ELSE "call_intake"

ShouldContinueAfterSafetyCheck(s) ==
    IF ~s.content_safety_passed THEN "data_storage"
    ELSE IF s.error # NONE THEN "end"
    ELSE "call_intake"

\* Variant: the router after Intake ignores the error and validation flags.
ShouldContinueAfterIntake_Always(s) == "summarization"

\* Variant: the router after Intake always ends the run.
ShouldContinueAfterIntake_Ends(s) == "end"

ShouldContinueAfterIntake(s) ==
    IF s.error # NONE \/ s.validation_failed THEN "end"
    ELSE IF s.call_data = Nothing THEN "end"
    ELSE "summarization"

\* Variant: scoring is skipped when no agent name was identified.
ShouldDoQualityScoring_NeedsAgent(s) ==
    IF s.call_data = Nothing THEN "data_storage"
    ELSE IF ~Truthy(Val(s.call_data).metadata.agent_name) THEN "data_storage"
    ELSE IF ~Truthy(Strip(Val(s.call_data).metadata.agent_name)) THEN "data_storage"
    ELSE "quality_scoring"

ShouldDoQualityScoring(s) ==
    IF s.call_data = Nothing THEN "data_storage" ELSE "quality_scoring"

\* -------------------------------------------------------------------- Init
Init ==
    /\ hashes = <<>>
    /\ call_files = {}
    /\ calls_db = <<>>
    /\ scores_csv = <<>>
    /\ agent_performance = <<>>
    /\ clock = 0
    /\ pc = "idle"
    /\ st = IdleState
    /\ ext = <<>>
    /\ trace = <<>>
    /\ before = [hashes |-> <<>>, call_files |-> {}, calls_db |-> <<>>,
                 scores_csv |-> <<>>, agent_performance |-> <<>>]
    /\ earlier = {}
    /\ runs = 0
    /\ workers = <<>>

\* The clock advances between runs.
Tick ==
    /\ pc = "idle"
    /\ clock + 1 \in Seconds
    /\ clock' = clock + 1
    /\ UNCHANGED <<files, pc, st, ext, trace, before, earlier, runs>>
    /\ UNCHANGED workers

\* process(input_type, input_content): build the initial state and enter the
\* graph at the node _route_entry names.
Submit ==
    /\ pc = "idle"
    /\ runs < MaxRuns
    /\ \E input_type \in {"text", "audio"} :
        \E text \in Texts, path \in AudioPaths :
            /\ input_type = "text" => path = ""
            /\ input_type = "audio" => text = EmptyText
            /\ LET s == InitialState(input_type,
                                     IF input_type = "text" THEN Some(text) ELSE Nothing,
                                     path)
               IN  /\ st' = s
                   /\ pc' = RouteEntry(s)
    /\ ext' = <<>>
    /\ trace' = <<>>
    /\ before' = Store
    /\ runs' = runs + 1
    /\ UNCHANGED <<files, clock, earlier>>
    /\ UNCHANGED workers

\* ------------------------------------------------------ TranscriptionAgent
ErrNoPath == "No audio file path provided"
ErrNotFound == "Audio file not found"
ErrFormat == "Unsupported audio format"
ErrTranscription == "Transcription Agent error: Failed to transcribe audio"

\* _transcription_node, then the edge to content_safety.
Transcription ==
    /\ pc = "transcription"
    /\ trace' = Append(trace, "transcription")
    /\ pc' = "content_safety"
    /\ LET path == st.input_content.path IN
       IF st.error # NONE THEN
            /\ st' = Merge(st, st)
            /\ ext' = ext
       ELSE IF path = "" THEN
            /\ st' = Merge(st, [st EXCEPT !.error = ErrNoPath])
            /\ ext' = ext
       ELSE IF ~PathExists(path) THEN
            /\ st' = Merge(st, [st EXCEPT !.error = ErrNotFound])
            /\ ext' = ext
       ELSE IF ~SupportedFormat(path) THEN
            /\ st' = Merge(st, [st EXCEPT !.error = ErrFormat])
            /\ ext' = ext
       ELSE \/ \E t \in Transcriptions :
                 /\ st' = Merge(st, WithSteps([st EXCEPT !.transcript = Some(t)],
                                    <<"Transcription: Audio converted to text">>))
                 /\ ext' = Called("speech_to_text", "text")
            \/ /\ st' = Merge(st, [st EXCEPT !.error = ErrTranscription])
               /\ ext' = Called("speech_to_text", "raises")
    /\ UNCHANGED <<files, clock, before, earlier, runs>>
    /\ UNCHANGED workers

\* Variant: the gate fails closed, a moderation failure counts as unsafe.
CheckTranscriptSafety_FailClosed(answer) ==
    LET is_safe == ~answer.failed /\ answer.categories = <<>> IN
    [passed |-> is_safe,
     violations |-> IF is_safe THEN <<>>
                    ELSE <<[type |-> "content_safety", categories |-> answer.categories]>>,
     warnings |-> <<>>,
     flagged_categories |-> IF is_safe THEN <<>> ELSE answer.categories]

\* ------------------------------------------------------ ContentSafetyAgent
\* GuardrailsManager.check_transcript_safety over ContentSafetyGuardrails.
\* check_content: a failure of the moderation call is caught there and
\* reported as safe, and the manager keeps the details only when unsafe.
CheckTranscriptSafety(answer) ==
    LET is_safe == answer.failed \/ answer.categories = <<>> IN
    [passed |-> is_safe,
     violations |-> IF is_safe THEN <<>>
                    ELSE <<[type |-> "content_safety", categories |-> answer.categories]>>,
     warnings |-> <<>>,
     flagged_categories |-> IF is_safe THEN <<>> ELSE answer.categories]

\* Variant: a flagged transcript also sets the terminal error, which the
\* router after the safety check would send to END instead of to storage.
ContentSafetyProcess_SetsError(s, answer) ==
    LET results == CheckTranscriptSafety(answer) IN
    IF ~results.passed THEN
        [s EXCEPT !.content_safety_passed = FALSE,
                  !.content_safety_details = Some(results),
                  !.needs_manual_review = TRUE,
                  !.error = "Content flagged by safety check",
                  !.processing_steps = <<"Content Safety: FLAGGED">>]
    ELSE
        [s EXCEPT !.content_safety_passed = TRUE,
                  !.content_safety_details = Some(results),
                  !.processing_steps = <<"Content Safety: Transcript approved">>]

\* ContentSafetyAgent.process with the moderation answer.
ContentSafetyProcess(s, answer) ==
    LET results == CheckTranscriptSafety(answer) IN
    IF ~results.passed THEN
        [s EXCEPT !.content_safety_passed = FALSE,
                  !.content_safety_details = Some(results),
                  !.needs_manual_review = TRUE,
                  !.processing_steps = <<"Content Safety: FLAGGED">>]
    ELSE
        [s EXCEPT !.content_safety_passed = TRUE,
                  !.content_safety_details = Some(results),
                  !.processing_steps = <<"Content Safety: Transcript approved">>]

\* _content_safety_node, then _should_continue_after_safety_check.
ContentSafety ==
    /\ pc = "content_safety"
    /\ trace' = Append(trace, "content_safety")
    /\ IF st.error # NONE THEN
            /\ st' = Merge(st, st)
            /\ ext' = ext
       ELSE IF NoTranscript(st) THEN
            /\ st' = Merge(st, [st EXCEPT
                    !.content_safety_passed = TRUE,
                    !.content_safety_details = Nothing,
                    !.processing_steps = <<"Content Safety: No transcript to check">>])
            /\ ext' = ext
       ELSE \E answer \in ModerationAnswers :
            /\ st' = Merge(st, ContentSafetyProcess(st, answer))
            /\ ext' = Called("moderation", answer)
    /\ pc' = ShouldContinueAfterSafetyCheck(st')
    /\ UNCHANGED <<files, clock, before, earlier, runs>>
    /\ UNCHANGED workers

\* --------------------------------------------------------- CallIntakeAgent
ErrNoTranscription == "No transcription available for processing"
ErrDuplicate == "Duplicate transcript detected. This call has already been processed."
ErrIntake == "Call Intake Agent error"
ErrInvalid(reason) ==
    IF reason = "monologue" THEN "Not a valid call center conversation: monologue"
    ELSE "Not a valid call center conversation: Unable to validate transcript"

\* Variant: the registry lookup never finds the fingerprint.
IsDuplicate_Never(h) == FALSE

\* _is_duplicate
IsDuplicate(h) == \E i \in DOMAIN hashes : hashes[i] = h
\* Variant: the registry file is left as it is.
StoreHash_Skips(h) == hashes

\* _store_hash: the list with h appended unless it is there
StoreHash(h) == IF IsDuplicate(h) THEN hashes ELSE Append(hashes, h)

\* _validate_and_extract_metadata: the parsed answer, or an invalid result
\* when the call or the parse raises.
ValidateAndExtractMetadata(answer) ==
    IF answer.failed
    THEN [is_valid |-> FALSE, validation_reason |-> "unable", metadata |-> Nothing]
    ELSE answer.result

\* _extract_conversation: the LLM's conversation and turns, or the raw text
\* and no turns when the call or the JSON parse raises.
ExtractConversation(t, answer) ==
    IF answer.failed
    THEN [conversation |-> t.raw, turns |-> <<>>]
    ELSE answer.result

ValidationCalls ==
    {[failed |-> TRUE, result |-> CHOOSE v \in ValidationAnswers : ~v.is_valid]}
    \cup {[failed |-> FALSE, result |-> v] : v \in ValidationAnswers}
ExtractionCalls ==
    {[failed |-> TRUE, result |-> CHOOSE e \in ExtractionAnswers : TRUE]}
    \cup {[failed |-> FALSE, result |-> e] : e \in ExtractionAnswers}

\* _call_intake_node, then _should_continue_after_intake.
CallIntake ==
    /\ pc = "call_intake"
    /\ trace' = Append(trace, "call_intake")
    /\ IF st.error # NONE THEN
            /\ st' = Merge(st, st)
            /\ UNCHANGED <<ext, hashes>>
       ELSE IF NoTranscript(st) THEN
            /\ st' = Merge(st, [st EXCEPT !.error = ErrNoTranscription])
            /\ UNCHANGED <<ext, hashes>>
       ELSE LET t == Val(st.transcript)
                h == ComputeTranscriptHash(t)
                pre == PreValidateTranscript(t)
            IN
            IF ~t.enc THEN
                \* normalized.encode('utf-8') raises; caught by process
                /\ st' = Merge(st, [st EXCEPT !.error = ErrIntake])
                /\ UNCHANGED <<ext, hashes>>
            ELSE IF IsDuplicate(h) THEN
                /\ st' = Merge(st, [st EXCEPT
                        !.error = ErrDuplicate,
                        !.processing_steps = <<"Duplicate Detected">>])
                /\ UNCHANGED <<ext, hashes>>
            ELSE IF pre # NONE THEN
                /\ st' = Merge(st, [st EXCEPT
                        !.error = pre,
                        !.validation_failed = TRUE,
                        !.processing_steps = <<"Validation Failed (pre-validation)">>])
                /\ UNCHANGED <<ext, hashes>>
            ELSE \E va \in ValidationCalls :
                LET validation_result == ValidateAndExtractMetadata(va) IN
                IF ~validation_result.is_valid THEN
                    /\ st' = Merge(st, [st EXCEPT
                            !.error = ErrInvalid(validation_result.validation_reason),
                            !.validation_failed = TRUE,
                            !.processing_steps = <<"Validation Failed (semantic)">>])
                    /\ ext' = Called("semantic_validation", va)
                    /\ UNCHANGED hashes
                ELSE \E ea \in ExtractionCalls :
                    LET metadata == OrElse(validation_result.metadata,
                                           Metadata(NONE, NONE))
                        conv == ExtractConversation(t, ea)
                        call_data == [metadata |-> metadata,
                                      conversation |-> conv.conversation,
                                      conversation_turns |-> conv.turns]
                    IN  IF conv.conversation = NONE THEN
                            \* CallData(conversation=None) raises; caught by process
                            /\ st' = Merge(st, [st EXCEPT !.error = ErrIntake])
                            /\ ext' = Append(Called("semantic_validation", va),
                                             [cap |-> "turn_extraction", answer |-> ea])
                            /\ UNCHANGED hashes
                        ELSE
                            /\ hashes' = StoreHash(h)
                            /\ st' = Merge(st, [st EXCEPT
                                    !.call_data = Some(call_data),
                                    !.processing_steps =
                                        <<"Call Intake: Validated and extracted metadata">>])
                            /\ ext' = Append(Called("semantic_validation", va),
                                             [cap |-> "turn_extraction", answer |-> ea])
    /\ pc' = ShouldContinueAfterIntake(st')
    /\ UNCHANGED <<call_files, calls_db, scores_csv, agent_performance, clock,
                   before, earlier, runs>>
    /\ UNCHANGED workers

\* ------------------------------------------------------ SummarizationAgent
ErrSummarization == "Summarization Agent error"
\* The summarization call answers with a summary, or it (or the fallback
\* parse of its answer) raises.
SummaryCalls ==
    {[failed |-> TRUE, result |-> CallSummaryAnswer],
     [failed |-> FALSE, result |-> CallSummaryAnswer]}

\* Variant: a failed summarization is swallowed; the run goes on without a
\* summary and without an error.
Summarization_SwallowsFailure ==
    /\ pc = "summarization"
    /\ trace' = Append(trace, "summarization")
    /\ IF st.error # NONE THEN
            /\ st' = Merge(st, st)
            /\ ext' = ext
       ELSE IF st.call_data = Nothing THEN
            /\ st' = Merge(st, [st EXCEPT !.error = "No call data available for summarization"])
            /\ ext' = ext
       ELSE \E sa \in SummaryCalls :
            /\ ext' = Called("summarization", sa)
            /\ IF sa.failed
               THEN st' = Merge(st, WithSteps(st, <<>>))
               ELSE st' = Merge(st, [st EXCEPT
                        !.summary = Some(sa.result),
                        !.processing_steps = <<"Summarization: Call summary generated">>])
    /\ pc' = ShouldDoQualityScoring(st')
    /\ UNCHANGED <<files, clock, before, earlier, runs>>
    /\ UNCHANGED workers

\* _summarization_node, then _should_do_quality_scoring.
Summarization ==
    /\ pc = "summarization"
    /\ trace' = Append(trace, "summarization")
    /\ IF st.error # NONE THEN
            /\ st' = Merge(st, st)
            /\ ext' = ext
       ELSE IF st.call_data = Nothing THEN
            /\ st' = Merge(st, [st EXCEPT !.error = "No call data available for summarization"])
            /\ ext' = ext
       ELSE \E sa \in SummaryCalls :
            /\ ext' = Called("summarization", sa)
            /\ IF sa.failed
               THEN st' = Merge(st, [st EXCEPT !.error = ErrSummarization])
               ELSE st' = Merge(st, [st EXCEPT
                        !.summary = Some(sa.result),
                        !.processing_steps = <<"Summarization: Call summary generated">>])
    /\ pc' = ShouldDoQualityScoring(st')
    /\ UNCHANGED <<files, clock, before, earlier, runs>>
    /\ UNCHANGED workers

\* ----------------------------------------------------- QualityScoringAgent
\* The quality capability raises, answers with a QualityScore the structured
\* parser accepts, or answers with free text the parser rejects.
ScoringCalls ==
    {[kind |-> "raises", score |-> Nothing, raw |-> Nothing]}
    \cup {[kind |-> "structured", score |-> Some(q), raw |-> Nothing] :
            q \in StructuredAnswers}
    \cup {[kind |-> "free_text", score |-> Nothing, raw |-> Some(r)] :
            r \in FreeTextAnswers}

\* _evaluate_quality on an answer that did not raise: the parsed score, or
\* what the fallback makes of the text.
EvaluateQuality(answer) ==
    IF answer.kind = "structured" THEN answer.score
    ELSE CreateFallbackScore(Val(answer.raw))

\* Variant: a scoring failure sets the terminal error, so that storage
\* becomes a no-op.
QualityScoringProcess_SetsError(s, answer) ==
    LET quality_score == IF answer.kind = "raises" THEN Nothing
                         ELSE EvaluateQuality(answer)
    IN  IF quality_score = Nothing THEN
            [s EXCEPT !.quality_score = Nothing,
                      !.needs_manual_review = TRUE,
                      !.error = "Quality Scoring Agent error",
                      !.processing_steps = <<"Quality Scoring: Failed, saved for manual review">>]
        ELSE
            [s EXCEPT !.quality_score = quality_score,
                      !.processing_steps = <<"Quality Scoring: Call quality evaluated">>]

\* Variant: a call that was scored is flagged for review all the same.
QualityScoringProcess_FlagsScored(s, answer) ==
    LET quality_score == IF answer.kind = "raises" THEN Nothing
                         ELSE EvaluateQuality(answer)
    IN  IF quality_score = Nothing THEN
            [s EXCEPT !.quality_score = Nothing,
                      !.needs_manual_review = TRUE,
                      !.processing_steps = <<"Quality Scoring: Failed, saved for manual review">>]
        ELSE
            [s EXCEPT !.quality_score = quality_score,
                      !.needs_manual_review = TRUE,
                      !.processing_steps = <<"Quality Scoring: Call quality evaluated">>]

\* QualityScoringAgent.process with the capability's answer.
QualityScoringProcess(s, answer) ==
    LET quality_score == IF answer.kind = "raises" THEN Nothing
                         ELSE EvaluateQuality(answer)
    IN  IF quality_score = Nothing THEN
            [s EXCEPT !.quality_score = Nothing,
                      !.needs_manual_review = TRUE,
                      !.processing_steps = <<"Quality Scoring: Failed, saved for manual review">>]
        ELSE
            [s EXCEPT !.quality_score = quality_score,
                      !.processing_steps = <<"Quality Scoring: Call quality evaluated">>]

\* Variant: the node does not look at the error field before it calls the
\* agent.
QualityScoring_IgnoresError ==
    /\ pc = "quality_scoring"
    /\ trace' = Append(trace, "quality_scoring")
    /\ pc' = "data_storage"
    /\ IF st.call_data = Nothing THEN
            /\ st' = Merge(st, [st EXCEPT !.error = "No call data available for quality scoring"])
            /\ ext' = ext
       ELSE \E answer \in ScoringCalls :
            /\ st' = Merge(st, QualityScoringProcess(st, answer))
            /\ ext' = Called("scoring", answer)
    /\ UNCHANGED <<files, clock, before, earlier, runs>>
    /\ UNCHANGED workers

\* _quality_scoring_node, then the edge to data_storage.
QualityScoring ==
    /\ pc = "quality_scoring"
    /\ trace' = Append(trace, "quality_scoring")
    /\ pc' = "data_storage"
    /\ IF st.error # NONE THEN
            /\ st' = Merge(st, st)
            /\ ext' = ext
       ELSE IF st.call_data = Nothing THEN
            /\ st' = Merge(st, [st EXCEPT !.error = "No call data available for quality scoring"])
            /\ ext' = ext
       ELSE \E answer \in ScoringCalls :
            /\ st' = Merge(st, QualityScoringProcess(st, answer))
            /\ ext' = Called("scoring", answer)
    /\ UNCHANGED <<files, clock, before, earlier, runs>>
    /\ UNCHANGED workers

\* -------------------------------------------------------- DataStorageAgent
\* strftime("%Y%m%d_%H%M%S") of the clock.
Stamp(c) == IF c = 0 THEN "T0" ELSE "T1"
\* _generate_call_id
GenerateCallId(c) == "CALL_" \o Stamp(c)
FlaggedCallId(c) == "FLAGGED_" \o Stamp(c)

\* open(calls/<call_id>.json, 'w'): the record replaces any file of that name.
WriteFile(fs, record) == {f \in fs : f.call_id # record.call_id} \cup {record}

\* has_agent_name: agent_name and agent_name.strip()
HasAgentName(metadata) ==
    Truthy(metadata.agent_name) /\ Truthy(Strip(metadata.agent_name))

\* datetime.now().isoformat(): the second c and, below the second, the place
\* of the run among the runs made (a later run reads a later time).
Isoformat(c) == <<c, runs>>

\* _store_flagged_content: the record file and the index entry.
FlaggedRecord(s, c) ==
    LET details == s.content_safety_details IN
    [call_id |-> FlaggedCallId(c),
     timestamp |-> Isoformat(c),
     status |-> "FLAGGED_FOR_REVIEW",
     needs_manual_review |-> TRUE,
     content_safety_passed |-> FALSE,
     flagged_categories |-> IF IsSome(details) THEN Val(details).flagged_categories
                            ELSE <<>>,
     input_type |-> s.input_type,
     transcript |-> s.transcript,
     metadata |-> [agent_name |-> NONE, caller_name |-> NONE,
                   call_duration |-> NONE, date_time |-> Stamp(c)]]
FlaggedIndexEntry(record) ==
    [call_id |-> record.call_id, timestamp |-> record.timestamp,
     agent_name |-> NONE, overall_score |-> Nothing,
     needs_manual_review |-> TRUE, status |-> "FLAGGED_FOR_REVIEW",
     flagged_categories |-> record.flagged_categories]

\* _store_call_record: the record file and the index entry.
CallRecord(call_data, summary, quality_score, needs_manual_review, c) ==
    [call_id |-> call_data.metadata.call_id,
     timestamp |-> Isoformat(c),
     needs_manual_review |-> needs_manual_review,
     metadata |-> [agent_name |-> call_data.metadata.agent_name,
                   caller_name |-> call_data.metadata.caller_name,
                   call_duration |-> call_data.metadata.call_duration,
                   date_time |-> call_data.metadata.date_time],
     conversation |-> call_data.conversation,
     conversation_turns |-> call_data.conversation_turns,
     summary |-> summary,
     quality_score |-> quality_score]
IndexEntry(record) ==
    [call_id |-> record.call_id, timestamp |-> record.timestamp,
     agent_name |-> record.metadata.agent_name,
     overall_score |-> IF IsSome(record.quality_score)
                       THEN Some(Val(record.quality_score).overall_score)
                       ELSE Nothing,
     needs_manual_review |-> record.needs_manual_review]

\* _store_quality_score: the CSV row, scores rounded to hundredths.
ScoreRow(call_data, q, c) ==
    [timestamp |-> Isoformat(c),
     call_id |-> call_data.metadata.call_id,
     agent_name |-> call_data.metadata.agent_name,
     overall_score |-> Round2(q.overall_score),
     tone_score |-> Round2(q.tone_score),
     professionalism_score |-> Round2(q.professionalism_score),
     resolution_score |-> Round2(q.resolution_score),
     response_score |-> Round2(q.response_time_score),
     feedback |-> q.feedback]

\* Variant: the new score is weighted like the old average (the divisor is
\* the old count).
RunningAverage_OldCount(old, n, x) == RDivInt(RAdd(RMulInt(old, n), x), n)

\* The running average (old * n + x) / (n + 1).
RunningAverage(old, n, x) == RDivInt(RAdd(RMulInt(old, n), x), n + 1)

\* Variant: the aggregate update appends a fresh row even when the agent
\* already has one.
UpdateAgentPerformance_AlwaysAppends(rows, agent_name, q, c) ==
    Append(rows,
           [agent_name |-> agent_name,
            total_calls |-> 1,
            average_overall_score |-> q.overall_score,
            average_tone_score |-> q.tone_score,
            average_professionalism_score |-> q.professionalism_score,
            average_resolution_score |-> q.resolution_score,
            average_response_score |-> q.response_time_score,
            last_updated |-> c])

\* Variant: the table is started afresh with the agent's row alone.
UpdateAgentPerformance_StartsAfresh(rows, agent_name, q, c) ==
    <<[agent_name |-> agent_name,
       total_calls |-> 1,
       average_overall_score |-> q.overall_score,
       average_tone_score |-> q.tone_score,
       average_professionalism_score |-> q.professionalism_score,
       average_resolution_score |-> q.resolution_score,
       average_response_score |-> q.response_time_score,
       last_updated |-> c]>>

\* _update_agent_performance: the rows of agent_performance.csv afterwards.
UpdateAgentPerformance(rows, agent_name, q, c) ==
    IF \E i \in DOMAIN rows : rows[i].agent_name = agent_name THEN
        LET first == CHOOSE i \in DOMAIN rows :
                        /\ rows[i].agent_name = agent_name
                        /\ \A j \in 1..(i - 1) : rows[j].agent_name # agent_name
            n == rows[first].total_calls
        IN  [i \in DOMAIN rows |->
                IF rows[i].agent_name # agent_name THEN rows[i]
                ELSE [agent_name |-> agent_name,
                      total_calls |-> n + 1,
                      average_overall_score |->
                          RunningAverage(rows[i].average_overall_score, n, q.overall_score),
                      average_tone_score |->
                          RunningAverage(rows[i].average_tone_score, n, q.tone_score),
                      average_professionalism_score |->
                          RunningAverage(rows[i].average_professionalism_score, n,
                                         q.professionalism_score),
                      average_resolution_score |->
                          RunningAverage(rows[i].average_resolution_score, n,
                                         q.resolution_score),
                      average_response_score |->
                          RunningAverage(rows[i].average_response_score, n,
                                         q.response_time_score),
                      last_updated |-> c]]
    ELSE Append(rows,
                [agent_name |-> agent_name,
                 total_calls |-> 1,
                 average_overall_score |-> q.overall_score,
                 average_tone_score |-> q.tone_score,
                 average_professionalism_score |-> q.professionalism_score,
                 average_resolution_score |-> q.resolution_score,
                 average_response_score |-> q.response_time_score,
                 last_updated |-> c])

\* _data_storage_node, then the edge to END.
DataStorage ==
    /\ pc = "data_storage"
    /\ trace' = Append(trace, "data_storage")
    /\ pc' = "end"
    /\ IF st.error # NONE THEN
            /\ st' = Merge(st, st)
            /\ UNCHANGED <<call_files, calls_db, scores_csv, agent_performance>>
       ELSE IF ~st.content_safety_passed THEN
            LET record == FlaggedRecord(st, clock) IN
            /\ call_files' = WriteFile(call_files, record)
            /\ calls_db' = Append(calls_db, FlaggedIndexEntry(record))
            /\ st' = Merge(st, [st EXCEPT
                    !.storage_path = "data_storage_call_center",
                    !.processing_steps = <<"Data Storage: Flagged content stored",
                                           "Reason", "Status: Awaiting manual review">>])
            /\ UNCHANGED <<scores_csv, agent_performance>>
       ELSE IF st.call_data = Nothing THEN
            /\ st' = Merge(st, WithSteps(st, <<"Data Storage: Skipped - Missing call data">>))
            /\ UNCHANGED <<call_files, calls_db, scores_csv, agent_performance>>
       ELSE LET cd0 == Val(st.call_data)
                call_data ==
                    IF Truthy(cd0.metadata.call_id) THEN cd0
                    ELSE [cd0 EXCEPT !.metadata.call_id = GenerateCallId(clock)]
                has_agent_name == HasAgentName(call_data.metadata)
                needs_manual_review == st.needs_manual_review \/ ~has_agent_name
                record == CallRecord(call_data, st.summary, st.quality_score,
                                     needs_manual_review, clock)
                scored == has_agent_name /\ IsSome(st.quality_score)
                message ==
                    IF ~has_agent_name
                    THEN "Data Storage: saved for manual review (no agent identified)"
                    ELSE IF needs_manual_review
                    THEN "Data Storage: saved for manual review (scoring incomplete)"
                    ELSE "Data Storage: stored successfully"
            IN  /\ call_files' = WriteFile(call_files, record)
                /\ calls_db' = Append(calls_db, IndexEntry(record))
                /\ scores_csv' =
                    IF scored
                    THEN Append(scores_csv, ScoreRow(call_data, Val(st.quality_score), clock))
                    ELSE scores_csv
                /\ agent_performance' =
                    IF scored
                    THEN UpdateAgentPerformance(agent_performance,
                                                call_data.metadata.agent_name,
                                                Val(st.quality_score), clock)
                    ELSE agent_performance
                /\ st' = Merge(st, [st EXCEPT
                        !.call_data = Some(call_data),
                        !.storage_path = "data_storage_call_center",
                        !.processing_steps = <<message>>])
    /\ UNCHANGED <<hashes, clock, ext, before, earlier, runs>>
    /\ UNCHANGED workers

\* workflow.invoke returns the final state to the caller of process(); the
\* GraphState of the run is gone with it.
Return ==
    /\ pc = "end"
    /\ pc' = "idle"
    /\ earlier' = IF st.transcript = Nothing THEN earlier
                  ELSE earlier \cup {Val(st.transcript).norm}
    /\ st' = IdleState
    /\ ext' = <<>>
    /\ trace' = <<>>
    /\ before' = Store
    /\ UNCHANGED <<files, clock, runs>>
    /\ UNCHANGED workers

Next ==
    \/ Tick
    \/ Submit
    \/ Transcription
    \/ ContentSafety
    \/ CallIntake
    \/ Summarization
    \/ QualityScoring
    \/ DataStorage
    \/ Return

Spec == Init /\ [][Next]_vars

\* ======================================================================
\* Properties
\* ======================================================================
RanNode(n) == \E i \in DOMAIN trace : trace[i] = n
Invoked(cap) == \E i \in DOMAIN ext : ext[i].cap = cap
Finished == pc = "end"
InputText == Val(st.input_content.text)
Registered(hs, h) == \E i \in DOMAIN hs : hs[i] = h
PreValidationErrors ==
    {ErrTooShort, ErrTooLong, ErrNoDialogue, ErrMusic, ErrGibberish, ErrFewWords,
     ErrSpam, ErrEncoding}
SemanticErrors == {ErrInvalid("monologue"), ErrInvalid("unable")}
\* The record files, the index, the ledger and the aggregates are as they
\* were when the run started.
RecordsUnchanged ==
    /\ call_files = before.call_files
    /\ calls_db = before.calls_db
    /\ scores_csv = before.scores_csv
    /\ agent_performance = before.agent_performance
\* The run appended exactly one index entry and wrote exactly one record
\* file, the one that entry names.
CommittedOne ==
    /\ Len(calls_db) = Len(before.calls_db) + 1
    /\ SubSeq(calls_db, 1, Len(before.calls_db)) = before.calls_db
    /\ LET id == calls_db[Len(calls_db)].call_id IN
        /\ \E f \in call_files : f.call_id = id
        /\ {f \in call_files : f.call_id # id}
            = {f \in before.call_files : f.call_id # id}
\* The record file the run's index entry names.
Committed == CHOOSE f \in call_files : f.call_id = calls_db[Len(calls_db)].call_id
TotalCalls(rows, agent) ==
    IF \E i \in DOMAIN rows : rows[i].agent_name = agent
    THEN (rows[CHOOSE i \in DOMAIN rows : rows[i].agent_name = agent]).total_calls
    ELSE 0
ModerationFlagged ==
    \E i \in DOMAIN ext :
        /\ ext[i].cap = "moderation"
        /\ ~ext[i].answer.failed
        /\ ext[i].answer.categories # <<>>
LlmCapabilities ==
    {"semantic_validation", "turn_extraction", "summarization", "scoring"}

C2_AsClaimed ==
    (Finished /\ st.transcript # Nothing /\ Val(st.transcript).norm \in earlier)
        => st.error = ErrDuplicate

\* C2 (amended): a run whose normalized transcript was registered by an
\* earlier run (one that passed Intake) and that moderation does not flag
\* ends with the duplicate error.
C2_DuplicateOfRegistered ==
    (/\ Finished
     /\ st.transcript # Nothing
     /\ Registered(before.hashes, Val(st.transcript).norm)
     /\ st.content_safety_passed)
        => (st.error = ErrDuplicate /\ hashes = before.hashes)
C2_Witness ==
    /\ Finished
    /\ st.transcript = Some(DialogueACompact)
    /\ before.hashes = <<DialogueA.norm>>
    /\ st.error = ErrDuplicate

\* C3: a run that ends with the duplicate, a pre-validation or a semantic
\* validation error has entered none of summarization, quality_scoring and
\* data_storage, and the record files, the index, the ledger and the
\* aggregates are as they were before the run.
C3_TerminalIntakeErrors ==
    (Finished /\ st.error \in {ErrDuplicate} \cup PreValidationErrors \cup SemanticErrors)
        => /\ ~RanNode("summarization")
           /\ ~RanNode("quality_scoring")
           /\ ~RanNode("data_storage")
           /\ RecordsUnchanged
C3_Witness ==
    /\ Finished
    /\ st.error \in SemanticErrors
    /\ calls_db # <<>>
    /\ agent_performance # <<>>

\* C4: when moderation flags the transcript the run commits exactly one
\* flagged record (FLAGGED_ identifier, status FLAGGED_FOR_REVIEW, review
\* flag set, the categories moderation returned, no summary, no score), never
\* enters call_intake, summarization or quality_scoring, and leaves the
\* ledger and the aggregates unchanged.
C4_FlaggedCommitted ==
    (Finished /\ ModerationFlagged)
        => /\ CommittedOne
           /\ LET entry == calls_db[Len(calls_db)]
                  answer == ext[CHOOSE i \in DOMAIN ext : ext[i].cap = "moderation"].answer
              IN  /\ entry.call_id \in {FlaggedCallId(c) : c \in Seconds}
                  /\ "status" \in DOMAIN Committed
                  /\ Committed.status = "FLAGGED_FOR_REVIEW"
                  /\ Committed.needs_manual_review
                  /\ Committed.flagged_categories = answer.categories
                  /\ Committed.transcript = st.transcript
                  /\ "summary" \notin DOMAIN Committed
                  /\ "quality_score" \notin DOMAIN Committed
                  /\ entry.needs_manual_review
                  /\ entry.overall_score = Nothing
           /\ ~RanNode("call_intake")
           /\ ~RanNode("summarization")
           /\ ~RanNode("quality_scoring")
           /\ scores_csv = before.scores_csv
           /\ agent_performance = before.agent_performance
           /\ hashes = before.hashes
C4_Witness ==
    /\ Finished
    /\ ModerationFlagged
    /\ st.transcript = Some(DialogueA)
    /\ agent_performance # <<>>
    /\ Len(calls_db) = 2

\* The run passed the safety gate and Intake produced CallData.
PassedIntake == st.content_safety_passed /\ st.call_data # Nothing
AgentMissing == ~HasAgentName(Val(st.call_data).metadata)
ScoringFailed ==
    \E i \in DOMAIN ext :
        /\ ext[i].cap = "scoring"
        /\ \/ ext[i].answer.kind = "raises"
           \/ /\ ext[i].answer.kind = "free_text"
              /\ st.quality_score = Nothing

\* C5: a call that passed safety and Intake and whose agent name is absent or
\* blank is committed by Store with the review flag set, and the run writes
\* no ledger row and no aggregate update.
C5_AsClaimed ==
    (Finished /\ PassedIntake /\ AgentMissing)
        => /\ CommittedOne
           /\ Committed.needs_manual_review
           /\ scores_csv = before.scores_csv
           /\ agent_performance = before.agent_performance

C7_AsClaimed == (Finished /\ RanNode("data_storage")) => CommittedOne

\* C8: every run that passed Intake (CallData produced, fingerprint
\* registered) has committed a record for the call when it ends.
C8_AsClaimed ==
    (Finished /\ st.call_data # Nothing
        /\ Registered(hashes, Val(st.transcript).norm))
        => (CommittedOne /\ "status" \notin DOMAIN Committed)

\* C9: when scoring fails (the capability raises, or the fallback finds too
\* little) the run sets no error, sets the review flag, carries no score to
\* Store, and Store commits a record without score and with the review flag
\* set, writing no ledger row and no aggregate update.
C9_ScoringFailureStored ==
    /\ (pc = "data_storage" /\ ScoringFailed)
        => /\ st.error = NONE
           /\ st.needs_manual_review
           /\ st.quality_score = Nothing
    /\ (Finished /\ ScoringFailed)
        => /\ st.error = NONE
           /\ st.needs_manual_review
           /\ st.quality_score = Nothing
           /\ RanNode("data_storage")
           /\ CommittedOne
           /\ "status" \notin DOMAIN Committed
           /\ Committed.quality_score = Nothing
           /\ Committed.needs_manual_review
           /\ calls_db[Len(calls_db)].overall_score = Nothing
           /\ scores_csv = before.scores_csv
           /\ agent_performance = before.agent_performance
C9_Witness ==
    /\ Finished
    /\ \E i \in DOMAIN ext : ext[i].cap = "scoring" /\ ext[i].answer.kind = "free_text"
    /\ ScoringFailed
    /\ ~AgentMissing
    /\ agent_performance # <<>>

\* C10: the fallback returns no QualityScore when the response text yields
\* fewer than 2 dimensions and no labelled overall score.
C10_AsClaimed ==
    \A i \in DOMAIN ext :
        (/\ ext[i].cap = "scoring"
         /\ ext[i].answer.kind = "free_text"
         /\ Len(FoundScores(Val(ext[i].answer.raw))) < 2
         /\ Val(ext[i].answer.raw).overall = Nothing)
            => st.quality_score = Nothing

\* ------------------------------------------------------------------------
\* The scoring stage on its own: the quality capability's answer is drawn
\* from a wide set of numbers and QualityScoringAgent.process is applied to it.
ScoreValues == {Rat(0 - 1, 1), Num(0), Rat(15, 2), Num(10), Num(11)}
WideScoringCalls ==
    {[kind |-> "structured",
      score |-> Some(Score(o, t, p, r, q, "feedback", <<>>, <<>>)),
      raw |-> Nothing] : o, t, p, r, q \in ScoreValues}
    \cup {[kind |-> "free_text", score |-> Nothing,
           raw |-> Some(FreeText(t, p, Nothing, Nothing, o))] :
            t, p, o \in {Nothing, Some(Num(11)), Some(Num(6))}}

\* The state of a run that has passed Intake and Summarization.
ScoringInput ==
    [InitialState("text", Some(DialogueA), "") EXCEPT
        !.call_data = Some([metadata |-> Metadata(NONE, "alice"),
                            conversation |-> "Agent: Hello. Caller: Hi.",
                            conversation_turns |->
                                <<Turn("Agent", "Hello."), Turn("Caller", "Hi.")>>]),
        !.summary = Some(CallSummaryAnswer)]

InitScoring ==
    /\ hashes = <<DialogueA.norm>>
    /\ call_files = {}
    /\ calls_db = <<>>
    /\ scores_csv = <<>>
    /\ agent_performance = <<>>
    /\ clock = 0
    /\ pc = "quality_scoring"
    /\ st = ScoringInput
    /\ \E answer \in WideScoringCalls : ext = <<[cap |-> "scoring", answer |-> answer]>>
    /\ trace = <<"content_safety", "call_intake", "summarization">>
    /\ before = [hashes |-> <<>>, call_files |-> {}, calls_db |-> <<>>,
                 scores_csv |-> <<>>, agent_performance |-> <<>>]
    /\ earlier = {}
    /\ runs = 1
    /\ workers = <<>>

\* _quality_scoring_node on the drawn answer.
Evaluate ==
    /\ pc = "quality_scoring"
    /\ st' = Merge(st, QualityScoringProcess(st, ext[1].answer))
    /\ trace' = Append(trace, "quality_scoring")
    /\ pc' = "data_storage"
    /\ UNCHANGED <<files, clock, ext, before, earlier, runs>>
    /\ UNCHANGED workers

SpecScoring == InitScoring /\ [][Evaluate]_vars

InRange(x) == RLeq(Num(0), x) /\ RLeq(x, Num(10))
MeanOfDimensions(q) ==
    RDivInt(RSum(<<q.tone_score, q.professionalism_score, q.resolution_score,
                   q.response_time_score>>), 4)

\* C11: every QualityScore the structured-parse path produces has its five
\* numbers within [0,10] and an overall score equal to the mean of the four
\* dimension scores (to two decimals).
C11_AsClaimed ==
    (/\ pc = "data_storage"
     /\ ext[1].answer.kind = "structured"
     /\ st.quality_score # Nothing)
        => LET q == Val(st.quality_score) IN
            /\ InRange(q.overall_score)
            /\ InRange(q.tone_score)
            /\ InRange(q.professionalism_score)
            /\ InRange(q.resolution_score)
            /\ InRange(q.response_time_score)
            /\ Round2(q.overall_score) = Round2(MeanOfDimensions(q))

\* ------------------------------------------------------------------------
\* The aggregate table on its own: scored calls of identified agents are
\* committed one after the other, as the branch "if has_agent_name and
\* quality_score" of DataStorageAgent.process does.
MaxCommits == 3
AggregateAgents == {"alice", "bob"}
AggregateScores ==
    {Score(Num(8), Num(9), Num(8), Num(7), Num(8), "good", <<>>, <<>>),
     Score(Rat(15, 2), Num(7), Num(8), Rat(13, 2), Rat(17, 2), "fair", <<>>, <<>>),
     Score(Num(3), Num(2), Num(4), Num(3), Num(3), "poor", <<>>, <<>>)}

\* _store_quality_score, then _update_agent_performance, in one run after
\* the other.
CommitScored ==
    /\ pc = "idle"
    /\ Len(scores_csv) < MaxCommits
    /\ \E agent \in AggregateAgents, q \in AggregateScores :
        LET call_data == [metadata |-> Metadata(GenerateCallId(clock), agent),
                          conversation |-> "Agent: Hello. Caller: Hi.",
                          conversation_turns |-> <<>>]
        IN  /\ scores_csv' = Append(scores_csv, ScoreRow(call_data, q, clock))
            /\ agent_performance' =
                UpdateAgentPerformance(agent_performance, agent, q, clock)
    /\ runs' = runs + 1
    /\ UNCHANGED <<hashes, call_files, calls_db, clock, pc, st, ext, trace,
                   before, earlier>>
    /\ UNCHANGED workers

SpecAggregate == Init /\ [][CommitScored]_vars

\* The ledger rows of one agent, and the sum of one of their columns (in
\* hundredths, as the ledger keeps them).
LedgerRows(agent) == {i \in DOMAIN scores_csv : scores_csv[i].agent_name = agent}
RECURSIVE SumOver(_, _)
SumOver(rows, column) ==
    IF rows = {} THEN 0
    ELSE LET i == CHOOSE j \in rows : TRUE
         IN  scores_csv[i][column] + SumOver(rows \ {i}, column)
\* avg is the arithmetic mean of the column over the agent's n ledger rows.
IsMeanOf(avg, agent, column) ==
    LET n == Cardinality(LedgerRows(agent))
    IN  RMulInt(avg, 100 * n) = Num(SumOver(LedgerRows(agent), column))

C13_AsClaimed ==
    /\ \A i, j \in DOMAIN calls_db :
        i # j => calls_db[i].call_id # calls_db[j].call_id
    /\ Cardinality(call_files) = Len(calls_db)

\* ------------------------------------------------------------------------
\* DataStorageAgent.process statement by statement, with writes that may
\* raise: the record file, the index, the ledger and the aggregate table are
\* written one after the other, and an exception anywhere ends the stage in
\* "except Exception" with the error set.
ErrStorage == "Data Storage Agent error"

\* The GraphStates that arrive at data_storage: a flagged transcript, or a
\* call that passed Intake, with or without agent name and score.
FlaggedInput ==
    ContentSafetyProcess(InitialState("text", Some(DialogueA), ""),
                         [failed |-> FALSE, categories |-> <<"harassment">>])
StorageInputs ==
    {FlaggedInput}
    \cup {QualityScoringProcess(
            [ScoringInput EXCEPT !.call_data =
                Some([Val(ScoringInput.call_data) EXCEPT !.metadata = m])],
            answer) : m \in Metadatas, answer \in ScoringCalls}

\* A run arrives at the storage stage.
Arrive ==
    /\ pc = "idle"
    /\ runs < MaxRuns
    /\ st' \in StorageInputs
    /\ pc' = "data_storage"
    /\ ext' = <<>>
    /\ trace' = <<>>
    /\ before' = Store
    /\ runs' = runs + 1
    /\ UNCHANGED <<files, clock, earlier>>
    /\ UNCHANGED workers

StoreFlagged(s) == ~s.content_safety_passed
StoreScored(s) ==
    /\ s.content_safety_passed
    /\ s.call_data # Nothing
    /\ HasAgentName(Val(s.call_data).metadata)
    /\ IsSome(s.quality_score)
StoreReview(s) == s.needs_manual_review \/ ~HasAgentName(Val(s.call_data).metadata)
\* The record the stage writes for the state s.
StoreRecord(s) ==
    IF StoreFlagged(s) THEN FlaggedRecord(s, clock)
    ELSE CallRecord(Val(s.call_data), s.summary, s.quality_score, StoreReview(s), clock)
StoreIndexEntry(s) ==
    IF StoreFlagged(s) THEN FlaggedIndexEntry(StoreRecord(s))
    ELSE IndexEntry(StoreRecord(s))
\* The state the stage returns when every write succeeded.
StoreDone(s) ==
    IF StoreFlagged(s)
    THEN [s EXCEPT !.storage_path = "data_storage_call_center",
                   !.processing_steps = <<"Data Storage: Flagged content stored",
                                          "Reason", "Status: Awaiting manual review">>]
    ELSE [s EXCEPT !.storage_path = "data_storage_call_center",
                   !.processing_steps =
                        <<IF ~HasAgentName(Val(s.call_data).metadata)
                          THEN "Data Storage: saved for manual review (no agent identified)"
                          ELSE IF StoreReview(s)
                          THEN "Data Storage: saved for manual review (scoring incomplete)"
                          ELSE "Data Storage: stored successfully">>]

\* Variant: the index is appended before the record file is written.
StoreStepAfter_IndexFirst(step, s) ==
    IF step = "data_storage" THEN "append_index"
    ELSE IF step = "append_index" THEN "write_record"
    ELSE IF step = "write_record"
         THEN (IF StoreScored(s) THEN "append_ledger" ELSE "end")
    ELSE IF step = "append_ledger" THEN "update_aggregate"
    ELSE "end"

\* The order of the writes: _store_call_record (file, then index), then
\* _store_quality_score, then _update_agent_performance.
StoreStepAfter(step, s) ==
    IF step = "data_storage" THEN "write_record"
    ELSE IF step = "write_record" THEN "append_index"
    ELSE IF step = "append_index"
         THEN (IF StoreScored(s) THEN "append_ledger" ELSE "end")
    ELSE IF step = "append_ledger" THEN "update_aggregate"
    ELSE "end"

\* A write succeeded: go to the next one, or return from the stage.
StoreAdvance(step) ==
    LET next == StoreStepAfter(step, st) IN
    /\ pc' = next
    /\ trace' = Append(trace, step)
    /\ st' = IF next = "end" THEN Merge(st, StoreDone(st)) ELSE st
\* A write raised: except Exception sets the error and returns the state.
StoreRaise(step) ==
    /\ pc' = "end"
    /\ trace' = Append(trace, "raised")
    /\ st' = Merge(st, [st EXCEPT !.error = ErrStorage])

\* The head of process(): the pass-through of the node, the skip, and the
\* generation of the call id.
BeginStore ==
    /\ pc = "data_storage"
    /\ IF st.error # NONE THEN
            /\ pc' = "end"
            /\ st' = Merge(st, st)
            /\ trace' = Append(trace, "data_storage")
       ELSE IF st.content_safety_passed /\ st.call_data = Nothing THEN
            /\ pc' = "end"
            /\ st' = Merge(st, WithSteps(st, <<"Data Storage: Skipped - Missing call data">>))
            /\ trace' = Append(trace, "data_storage")
       ELSE
            /\ pc' = StoreStepAfter("data_storage", st)
            /\ trace' = Append(trace, "data_storage")
            /\ st' = IF StoreFlagged(st) \/ Truthy(Val(st.call_data).metadata.call_id)
                     THEN st
                     ELSE [st EXCEPT !.call_data =
                            Some([Val(st.call_data) EXCEPT
                                    !.metadata.call_id = GenerateCallId(clock)])]
    /\ UNCHANGED <<files, clock, ext, before, earlier, runs>>
    /\ UNCHANGED workers

WriteRecordFile ==
    /\ pc = "write_record"
    /\ \/ /\ call_files' = WriteFile(call_files, StoreRecord(st))
          /\ StoreAdvance("write_record")
       \/ /\ call_files' = call_files
          /\ StoreRaise("write_record")
    /\ UNCHANGED <<hashes, calls_db, scores_csv, agent_performance, clock, ext,
                   before, earlier, runs>>
    /\ UNCHANGED workers

AppendIndex ==
    /\ pc = "append_index"
    /\ \/ /\ calls_db' = Append(calls_db, StoreIndexEntry(st))
          /\ StoreAdvance("append_index")
       \/ /\ calls_db' = calls_db
          /\ StoreRaise("append_index")
    /\ UNCHANGED <<hashes, call_files, scores_csv, agent_performance, clock, ext,
                   before, earlier, runs>>
    /\ UNCHANGED workers

AppendLedger ==
    /\ pc = "append_ledger"
    /\ \/ /\ scores_csv' = Append(scores_csv,
                                  ScoreRow(Val(st.call_data), Val(st.quality_score), clock))
          /\ StoreAdvance("append_ledger")
       \/ /\ scores_csv' = scores_csv
          /\ StoreRaise("append_ledger")
    /\ UNCHANGED <<hashes, call_files, calls_db, agent_performance, clock, ext,
                   before, earlier, runs>>
    /\ UNCHANGED workers

UpdateAggregate ==
    /\ pc = "update_aggregate"
    /\ \/ /\ agent_performance' =
                UpdateAgentPerformance(agent_performance,
                                       Val(st.call_data).metadata.agent_name,
                                       Val(st.quality_score), clock)
          /\ StoreAdvance("update_aggregate")
       \/ /\ agent_performance' = agent_performance
          /\ StoreRaise("update_aggregate")
    /\ UNCHANGED <<hashes, call_files, calls_db, scores_csv, clock, ext,
                   before, earlier, runs>>
    /\ UNCHANGED workers

NextStorage ==
    \/ Tick
    \/ Arrive
    \/ BeginStore
    \/ WriteRecordFile
    \/ AppendIndex
    \/ AppendLedger
    \/ UpdateAggregate
    \/ Return

SpecStorage == Init /\ [][NextStorage]_vars

StoredIds == {f.call_id : f \in call_files}
Raised == Finished /\ st.error = ErrStorage
Did(step) == \E i \in DOMAIN trace : trace[i] = step

\* C14: at every point of every run an index entry, a ledger row or an
\* aggregate contribution exists only if the full record of that call is
\* already written, and a write of the index, the ledger or the aggregate
\* that raises leaves the record file of the call in place.
C14_RecordBeforeIndex ==
    /\ \A i \in DOMAIN calls_db : calls_db[i].call_id \in StoredIds
    /\ \A i \in DOMAIN scores_csv : scores_csv[i].call_id \in StoredIds
    /\ \A i \in DOMAIN agent_performance :
        agent_performance[i].total_calls
            <= Cardinality(LedgerRows(agent_performance[i].agent_name))
    /\ (Raised /\ Did("write_record")) => StoreRecord(st) \in call_files
C14_Witness ==
    /\ Raised
    /\ Did("append_ledger")
    /\ StoreRecord(st) \in call_files
    /\ Len(calls_db) = 2
    /\ Len(scores_csv) = 2
    /\ Len(agent_performance) = 1
    /\ agent_performance[1].total_calls = 1

ModerationFailed ==
    \E i \in DOMAIN ext : ext[i].cap = "moderation" /\ ext[i].answer.failed

\* C15: when the moderation capability raises, the safety check reports
\* passed, sets no terminal error, and the run goes to Intake, never to END
\* and never to the flagged-content path of the storage stage.
C15_FailOpen ==
    (pc # "idle" /\ ModerationFailed)
        => /\ st.content_safety_passed
           /\ ~st.needs_manual_review \/ RanNode("quality_scoring")
           /\ pc = "call_intake" \/ RanNode("call_intake")
           /\ pc = "call_intake" => st.error = NONE
           /\ Finished => (calls_db = before.calls_db
                            \/ "status" \notin DOMAIN calls_db[Len(calls_db)])
C15_Witness ==
    /\ Finished
    /\ ModerationFailed
    /\ st.error = NONE
    /\ RanNode("data_storage")
    /\ st.quality_score # Nothing

\* C16: when moderation fails and the gate fails open, content_safety_details
\* carries the moderation error, so the state of a run that was not screened
\* differs from that of a run whose content was checked and approved.
C16_AsClaimed ==
    (pc = "call_intake" /\ ModerationFailed)
        => /\ st.content_safety_details
                # Some(CheckTranscriptSafety([failed |-> FALSE, categories |-> <<>>]))
           /\ st.processing_steps # <<"Content Safety: Transcript approved">>

\* ------------------------------------------------------------------------
\* Two runs in progress at once (process_async, or two sessions of the
\* service) on the same storage directory. Each run is followed from one
\* file access to the next: the code opens, reads and rewrites the registry,
\* the index and the aggregate table without any lock, so the accesses of
\* the two runs interleave freely. What a run does between two accesses of
\* the shared files (moderation, pre-validation, the LLM calls) is local.
Workers == {1, 2}

\* The call already in the store when the two runs start.
PriorCallData ==
    [metadata |-> Metadata("C-100", "alice"),
     conversation |-> "Agent: Hello. Caller: Hi.",
     conversation_turns |-> <<>>]
\* Its transcript, as the registry knows it.
PriorTranscript ==
    Text("dialogue p", "dialogue p", 300, 300, TRUE, 9, FALSE, 20, 55, 40, TRUE)
PriorScore == Score(Num(8), Num(9), Num(8), Num(7), Num(8), "good", <<>>, <<>>)
PriorRecord ==
    [CallRecord(PriorCallData, Some(CallSummaryAnswer), Some(PriorScore), FALSE, 0)
        EXCEPT !.timestamp = <<0, 1>>]

\* What the run of worker w is given: the transcript, whether moderation
\* flags it, and the agent the extraction names; the scoring answer and the
\* call id in the metadata differ from one worker to the other.
WorkerScore(w) ==
    IF w = 1 THEN Score(Num(6), Num(6), Num(6), Num(6), Num(6), "fair", <<>>, <<>>)
    ELSE Score(Num(3), Num(2), Num(4), Num(3), Num(3), "poor", <<>>, <<>>)
WorkerCallId(w) == IF w = 1 THEN "C-101" ELSE "C-102"
WorkerStart(w, text, flagged, agent) ==
    [at |-> IF flagged THEN "write_record" ELSE "is_duplicate",
     text |-> text,
     flagged |-> flagged,
     agent |-> IF flagged THEN NONE ELSE agent,
     passed |-> FALSE,
     data |-> <<>>,
     db |-> <<>>,
     df |-> <<>>,
     record |-> Nothing,
     error |-> NONE]
WorkerStarts(w) ==
    {WorkerStart(w, text, flagged, agent) :
        text \in {DialogueA, DialogueB}, flagged \in BOOLEAN, agent \in {"alice", "bob"}}

InitConcurrent ==
    /\ runs = 2
    /\ hashes = <<ComputeTranscriptHash(PriorTranscript)>>
    /\ call_files = {PriorRecord}
    /\ calls_db = <<IndexEntry(PriorRecord)>>
    /\ scores_csv = <<ScoreRow(PriorCallData, PriorScore, 0)>>
    /\ agent_performance = UpdateAgentPerformance(<<>>, "alice", PriorScore, 0)
    /\ clock = 0
    /\ pc = "idle"
    /\ st = IdleState
    /\ ext = <<>>
    /\ trace = <<>>
    /\ before = [hashes |-> <<ComputeTranscriptHash(PriorTranscript)>>,
                 call_files |-> {PriorRecord},
                 calls_db |-> <<IndexEntry(PriorRecord)>>,
                 scores_csv |-> <<ScoreRow(PriorCallData, PriorScore, 0)>>,
                 agent_performance |-> UpdateAgentPerformance(<<>>, "alice", PriorScore, 0)]
    /\ earlier = {PriorTranscript.norm}
    /\ workers \in {<<a, b>> : a \in WorkerStarts(1), b \in WorkerStarts(2)}

\* The record and the rows worker w writes.
WorkerCallData(w) ==
    [metadata |-> Metadata(WorkerCallId(w), workers[w].agent),
     conversation |-> "Agent: Hello. Caller: Hi.",
     conversation_turns |-> <<>>]
WorkerRecord(w) ==
    IF workers[w].flagged
    THEN FlaggedRecord(
            ContentSafetyProcess(InitialState("text", Some(workers[w].text), ""),
                                 [failed |-> FALSE, categories |-> <<"harassment">>]),
            clock)
    ELSE CallRecord(WorkerCallData(w), Some(CallSummaryAnswer), Some(WorkerScore(w)),
                    FALSE, clock)
WorkerIndexEntry(record) ==
    IF "status" \in DOMAIN record THEN FlaggedIndexEntry(record) ELSE IndexEntry(record)

Others == <<clock, pc, st, ext, trace, before, earlier, runs>>

\* _is_duplicate: read the registry and look the fingerprint up.
WIsDuplicate(w) ==
    /\ workers[w].at = "is_duplicate"
    /\ LET found == IsDuplicate(ComputeTranscriptHash(workers[w].text)) IN
        workers' = [workers EXCEPT
            ![w].passed = ~found,
            ![w].error = IF found THEN ErrDuplicate ELSE NONE,
            ![w].at = IF found THEN "done" ELSE "store_hash_read"]
    /\ UNCHANGED <<files, Others>>

\* _store_hash, first half: read the registry file.
WStoreHashRead(w) ==
    /\ workers[w].at = "store_hash_read"
    /\ workers' = [workers EXCEPT ![w].data = hashes, ![w].at = "store_hash_write"]
    /\ UNCHANGED <<files, Others>>

\* _store_hash, second half: rewrite the file from what was read.
WStoreHashWrite(w) ==
    /\ workers[w].at = "store_hash_write"
    /\ LET h == ComputeTranscriptHash(workers[w].text)
           data == workers[w].data
       IN  hashes' = IF \E i \in DOMAIN data : data[i] = h THEN hashes
                     ELSE Append(data, h)
    /\ workers' = [workers EXCEPT ![w].at = "write_record"]
    /\ UNCHANGED <<call_files, calls_db, scores_csv, agent_performance, Others>>

\* _store_call_record / _store_flagged_content: the record file.
WWriteRecord(w) ==
    /\ workers[w].at = "write_record"
    /\ call_files' = WriteFile(call_files, WorkerRecord(w))
    /\ workers' = [workers EXCEPT ![w].record = Some(WorkerRecord(w)),
                                  ![w].at = "index_read"]
    /\ UNCHANGED <<hashes, calls_db, scores_csv, agent_performance, Others>>

\* json.load(calls_database.json)
WIndexRead(w) ==
    /\ workers[w].at = "index_read"
    /\ workers' = [workers EXCEPT ![w].db = calls_db, ![w].at = "index_write"]
    /\ UNCHANGED <<files, Others>>

\* db["calls"].append(...); json.dump(db, calls_database.json)
WIndexWrite(w) ==
    /\ workers[w].at = "index_write"
    /\ calls_db' = Append(workers[w].db, WorkerIndexEntry(Val(workers[w].record)))
    /\ workers' = [workers EXCEPT
            ![w].at = IF workers[w].flagged THEN "done" ELSE "ledger_append"]
    /\ UNCHANGED <<hashes, call_files, scores_csv, agent_performance, Others>>

\* _store_quality_score: one row appended to the ledger.
WLedgerAppend(w) ==
    /\ workers[w].at = "ledger_append"
    /\ scores_csv' = Append(scores_csv, ScoreRow(WorkerCallData(w), WorkerScore(w), clock))
    /\ workers' = [workers EXCEPT ![w].at = "aggregate_read"]
    /\ UNCHANGED <<hashes, call_files, calls_db, agent_performance, Others>>

\* _update_agent_performance, first half: pd.read_csv
WAggregateRead(w) ==
    /\ workers[w].at = "aggregate_read"
    /\ workers' = [workers EXCEPT ![w].df = agent_performance, ![w].at = "aggregate_write"]
    /\ UNCHANGED <<files, Others>>

\* _update_agent_performance, second half: df.to_csv
WAggregateWrite(w) ==
    /\ workers[w].at = "aggregate_write"
    /\ agent_performance' =
        UpdateAgentPerformance(workers[w].df, workers[w].agent, WorkerScore(w), clock)
    /\ workers' = [workers EXCEPT ![w].at = "done"]
    /\ UNCHANGED <<hashes, call_files, calls_db, scores_csv, Others>>

IsDuplicateStep == \E w \in Workers : WIsDuplicate(w)
StoreHashReadStep == \E w \in Workers : WStoreHashRead(w)
StoreHashWriteStep == \E w \in Workers : WStoreHashWrite(w)
WriteRecordStep == \E w \in Workers : WWriteRecord(w)
IndexReadStep == \E w \in Workers : WIndexRead(w)
IndexWriteStep == \E w \in Workers : WIndexWrite(w)
LedgerAppendStep == \E w \in Workers : WLedgerAppend(w)
AggregateReadStep == \E w \in Workers : WAggregateRead(w)
AggregateWriteStep == \E w \in Workers : WAggregateWrite(w)

NextConcurrent ==
    \/ Tick
    \/ IsDuplicateStep
    \/ StoreHashReadStep
    \/ StoreHashWriteStep
    \/ WriteRecordStep
    \/ IndexReadStep
    \/ IndexWriteStep
    \/ LedgerAppendStep
    \/ AggregateReadStep
    \/ AggregateWriteStep

SpecConcurrent == InitConcurrent /\ [][NextConcurrent]_vars

\* Both runs have reached their end.
BothDone == \A w \in Workers : workers[w].at = "done"
\* The run of worker w wrote a record (it was flagged, or it passed intake).
Produced(w) == IsSome(workers[w].record)
\* The run of worker w committed a scored call.
ScoredRun(w) == workers[w].at = "done" /\ ~workers[w].flagged /\ workers[w].passed
SameTranscript ==
    /\ \A w \in Workers : ~workers[w].flagged
    /\ ComputeTranscriptHash(workers[1].text) = ComputeTranscriptHash(workers[2].text)

\* C17: when two runs with the same normalized transcript are in progress at
\* once, at most one of them passes the duplicate check and at most one of
\* them goes on to write a call record.
C17_AsClaimed ==
    SameTranscript =>
        /\ Cardinality({w \in Workers : workers[w].passed}) <= 1
        /\ Cardinality({w \in Workers : Produced(w)}) <= 1

\* C18: when two runs in progress at once have both committed a scored call
\* of the same agent, the agent's row counts two calls more than before and
\* its running averages are the means over all of the agent's ledger rows.
C18_AsClaimed ==
    (ScoredRun(1) /\ ScoredRun(2) /\ workers[1].agent = workers[2].agent) =>
        LET agent == workers[1].agent
            rows == {i \in DOMAIN agent_performance :
                        agent_performance[i].agent_name = agent}
        IN  /\ TotalCalls(agent_performance, agent)
                = TotalCalls(before.agent_performance, agent) + 2
            /\ \A i \in rows :
                /\ IsMeanOf(agent_performance[i].average_overall_score, agent,
                            "overall_score")
                /\ IsMeanOf(agent_performance[i].average_tone_score, agent,
                            "tone_score")

\* C19: when two runs in progress at once have both committed their record
\* (normal or flagged), the index holds an entry for each of the two calls
\* and still holds every entry it held before.
C19_AsClaimed ==
    (BothDone /\ Produced(1) /\ Produced(2)) =>
        /\ \A w \in Workers :
            \E i \in DOMAIN calls_db : calls_db[i].call_id = Val(workers[w].record).call_id
        /\ \A i \in DOMAIN before.calls_db :
            \E j \in DOMAIN calls_db : calls_db[j] = before.calls_db[i]

\* ------------------------------------------------------------------------
\* DataStorageAgent.get_manual_review_calls: the index entries with the
\* review flag, the record file of each (when it exists), sorted by
\* timestamp, most recent first.
TimestampLess(a, b) == a[1] < b[1] \/ (a[1] = b[1] /\ a[2] < b[2])

\* list.sort(key=timestamp, reverse=True) keeps the order of equal keys: a
\* record goes behind every record that is not older than it.
InsertByTimestamp(sorted, x) ==
    LET ahead == {i \in DOMAIN sorted : ~TimestampLess(sorted[i].timestamp, x.timestamp)}
        k == IF ahead = {} THEN 0
             ELSE CHOOSE i \in ahead : \A j \in ahead : j <= i
    IN  SubSeq(sorted, 1, k) \o <<x>> \o SubSeq(sorted, k + 1, Len(sorted))
RECURSIVE SortMostRecentFirst(_)
SortMostRecentFirst(records) ==
    IF records = <<>> THEN <<>>
    ELSE InsertByTimestamp(SortMostRecentFirst(SubSeq(records, 1, Len(records) - 1)),
                           records[Len(records)])

RECURSIVE LoadDetails(_)
LoadDetails(entries) ==
    IF entries = <<>> THEN <<>>
    ELSE LET call_id == Head(entries).call_id
             rest == LoadDetails(Tail(entries))
         IN  IF \E f \in call_files : f.call_id = call_id
             THEN <<CHOOSE f \in call_files : f.call_id = call_id>> \o rest
             ELSE rest

GetManualReviewCalls ==
    LET manual_review_calls == SelectSeq(calls_db, LAMBDA call : call.needs_manual_review)
    IN  SortMostRecentFirst(LoadDetails(manual_review_calls))

\* The commits with the review flag set, in the order they were made.
ReviewCommits == SelectSeq(calls_db, LAMBDA call : call.needs_manual_review)

\* C20: after any sequence of committed calls the list holds, most recent
\* first, exactly one record for each commit whose review flag is set (the
\* record that commit wrote), and no record whose review flag is false.
C20_AsClaimed ==
    LET listed == GetManualReviewCalls
        n == Len(ReviewCommits)
    IN  /\ Len(listed) = n
        /\ \A k \in 1..n :
            /\ listed[k].call_id = ReviewCommits[n + 1 - k].call_id
            /\ listed[k].timestamp = ReviewCommits[n + 1 - k].timestamp
        /\ \A k \in DOMAIN listed : listed[k].needs_manual_review

\* ------------------------------------------------------------------------
\* The run has appended an entry to the index; LastEntry is that entry.
RunCommitted == Finished /\ Len(calls_db) > Len(before.calls_db)
LastEntry == calls_db[Len(calls_db)]
AggregatesUntouched ==
    /\ scores_csv = before.scores_csv
    /\ agent_performance = before.agent_performance

\* C21: a run that persists its call with needs_manual_review = true (scoring
\* failed, no agent name, or flagged content) adds no ledger row and changes
\* no agent aggregate; a run that does add a ledger row or change an
\* aggregate persisted its call with the flag false.
C21_ReviewExcluded ==
    /\ (RunCommitted /\ LastEntry.needs_manual_review) => AggregatesUntouched
    /\ (Finished /\ ~AggregatesUntouched) =>
            /\ RunCommitted
            /\ ~LastEntry.needs_manual_review
            /\ ~Committed.needs_manual_review
C21_Witness ==
    /\ RunCommitted
    /\ LastEntry.needs_manual_review
    /\ st.content_safety_passed
    /\ IsSome(st.quality_score)
    /\ before.scores_csv # <<>>

\* The answer of the quality capability carried all four dimension scores.
CompleteAnswer(answer) ==
    \/ answer.kind = "structured"
    \/ /\ answer.kind = "free_text"
       /\ Len(FoundScores(Val(answer.raw))) = 4

\* C22: a run adds a ledger row or changes an agent aggregate only for a call
\* with a non-blank agent name whose four dimension scores were all obtained
\* from the capability; a fallback score with missing dimensions never
\* enters the ledger or an aggregate.
C22_AsClaimed ==
    (Finished /\ ~AggregatesUntouched) =>
        /\ PassedIntake
        /\ ~AgentMissing
        /\ \A i \in DOMAIN ext :
            ext[i].cap = "scoring" => CompleteAnswer(ext[i].answer)

\* The normalized transcript of the run in progress, not seen in any run
\* that has returned.
NewTranscript ==
    /\ st.transcript # Nothing
    /\ Val(st.transcript).norm \notin earlier
NoRepeats(seq) == \A i, j \in DOMAIN seq : i # j => seq[i] # seq[j]

\* C23: after N sequential submissions whose normalized transcripts are
\* pairwise distinct the registry has exactly N entries, whatever the outcome
\* of each submission.
C23_AsClaimed ==
    (pc = "idle" /\ Cardinality(earlier) = runs) => Len(hashes) = runs

\* C23 (amended): in sequential runs a submission with a new normalized
\* transcript adds exactly one entry to the registry, its own fingerprint,
\* when Intake produced CallData, and none otherwise; the registry holds no
\* fingerprint twice and only fingerprints of submitted transcripts, so after
\* N submissions it has at most N entries.
C23_OneEntryPerAcceptedCall ==
    /\ (Finished /\ NewTranscript) =>
            hashes = IF st.call_data # Nothing
                     THEN Append(before.hashes, Val(st.transcript).norm)
                     ELSE before.hashes
    /\ NoRepeats(hashes)
    /\ Len(hashes) <= runs
    /\ pc = "idle" =>
            \A i \in DOMAIN hashes : hashes[i] \in earlier
C23_Witness ==
    /\ Finished
    /\ runs = 2
    /\ NewTranscript
    /\ Cardinality(earlier) = 1
    /\ before.hashes = <<>>
    /\ Len(hashes) = 1

\* C24: the registry is append-only, also when runs are in progress at once:
\* no step removes a digest from it, and it never holds a digest twice.
C24_AsClaimed ==
    [][/\ \A i \in DOMAIN hashes : Registered(hashes', hashes[i])
       /\ NoRepeats(hashes')]_vars

\* ------------------------------------------------------------------------
\* DataStorageAgent.generate_agent_report: the trend of each dimension.
\* get_quality_scores(agent_name): the agent's ledger rows, sorted by
\* timestamp descending.
GetQualityScores(agent_name) ==
    SortMostRecentFirst(SelectSeq(scores_csv, LAMBDA row : row.agent_name = agent_name))
Column(rows, column) == [i \in DOMAIN rows |-> rows[i][column]]
RECURSIVE SeqSum(_)
SeqSum(seq) == IF seq = <<>> THEN 0 ELSE Head(seq) + SeqSum(Tail(seq))

\* _calculate_trend on a column (in hundredths): the mean of scores.iloc[mid:]
\* minus the mean of scores.iloc[:mid], compared with 0.5.
CalculateTrend(scores) ==
    IF Len(scores) < 2 THEN "insufficient_data"
    ELSE LET mid == Len(scores) \div 2
             n1 == mid
             n2 == Len(scores) - mid
             sum1 == SeqSum(SubSeq(scores, 1, mid))
             sum2 == SeqSum(SubSeq(scores, mid + 1, Len(scores)))
             \* diff * n1 * n2, in hundredths
             diff == sum2 * n1 - sum1 * n2
         IN  IF diff > 50 * n1 * n2 THEN "improving"
             ELSE IF diff < 0 - 50 * n1 * n2 THEN "declining"
             ELSE "stable"
ReportTrend(agent_name, column) ==
    CalculateTrend(Column(GetQualityScores(agent_name), column))

TrendColumns ==
    {"tone_score", "professionalism_score", "resolution_score", "response_score"}
\* The agent's scores in the order the calls were committed.
History(agent_name, column) ==
    Column(SelectSeq(scores_csv, LAMBDA row : row.agent_name = agent_name), column)

\* C25: the trend the report gives for a dimension is the classification of
\* the agent's scores taken in the order the calls were committed: later
\* half minus earlier half, above +0.5 improving, below -0.5 declining.
C25_AsClaimed ==
    \A agent_name \in AggregateAgents, column \in TrendColumns :
        ReportTrend(agent_name, column) = CalculateTrend(History(agent_name, column))

\* ------------------------------------------------------------------------
\* The step descriptions that tell of a terminal outcome.
ErrorSteps ==
    {"Duplicate Detected", "Validation Failed (pre-validation)",
     "Validation Failed (semantic)"}
Logged(steps) == \E i \in DOMAIN st.processing_steps : st.processing_steps[i] \in steps

\* C26: every run that ends with a terminal error has an entry in its step
\* log that describes that outcome.
C26_AsClaimed == (Finished /\ st.error # NONE) => Logged(ErrorSteps)

\* ------------------------------------------------------------------------
\* The stage that has just run, while the next one has not started yet.
JustRan(n) == trace # <<>> /\ trace[Len(trace)] = n

\* C27: after the safety check the run goes to storage (flagged path) exactly
\* when the check did not pass, whatever the error field says; otherwise to
\* the end when an error is set, otherwise to Intake. The flagged path is
\* taken only when moderation was actually asked and no error is set.
C27_SafetyRouting ==
    JustRan("content_safety") =>
        /\ pc = (IF ~st.content_safety_passed THEN "data_storage"
                 ELSE IF st.error # NONE THEN "end"
                 ELSE "call_intake")
        /\ pc = "data_storage" =>
            /\ st.error = NONE
            /\ Invoked("moderation")
            /\ ModerationFlagged
C27_Witness ==
    /\ JustRan("content_safety")
    /\ pc = "data_storage"
    /\ st.input_type = "audio"

\* C28: after Intake the run ends whenever an error is set, validation
\* failed or there is no CallData, and goes to summarization otherwise;
\* summarization is entered only with CallData present, no error set and the
\* fingerprint of the transcript in the registry.
C28_IntakeRouting ==
    /\ JustRan("call_intake") =>
        pc = (IF st.error # NONE \/ st.validation_failed \/ st.call_data = Nothing
              THEN "end" ELSE "summarization")
    /\ pc = "summarization" =>
        /\ JustRan("call_intake")
        /\ st.call_data # Nothing
        /\ st.error = NONE
        /\ ~st.validation_failed
        /\ Registered(hashes, ComputeTranscriptHash(Val(st.transcript)))
C28_Witness ==
    /\ pc = "summarization"
    /\ AgentMissing
    /\ Len(hashes) = 2

C30_ErrorIsFinal ==
    [][(st.error # NONE /\ pc # "end") =>
            /\ st'.error = st.error
            /\ st'.transcript = st.transcript
            /\ st'.call_data = st.call_data
            /\ st'.summary = st.summary
            /\ st'.quality_score = st.quality_score
            /\ ext' = ext
            /\ files' = files]_vars
C30_Witness ==
    /\ Finished
    /\ st.error = ErrSummarization
    /\ RanNode("quality_scoring")
    /\ RanNode("data_storage")
    /\ before.calls_db # <<>>

\* ------------------------------------------------------------------------
\* C31: a stage that runs while the error field is set returns the pipeline
\* state as it was in every field, the step log included.
C31_AsClaimed ==
    [][(st.error # NONE /\ pc # "end") => st' = st]_vars

\* ------------------------------------------------------------------------
\* The pre-validation on its own: _pre_validate_transcript applied to texts
\* on both sides of each of its thresholds.
PreValidationInputs ==
    {Text("t", "t", slen + pad, slen, pattern, terms, music,
          (3 * (slen + pad)) \div 10 + over, words, uniq, enc) :
        slen \in {49, 50, 100000, 100001}, pad \in {0, 5},
        pattern \in BOOLEAN, terms \in {2, 3}, music \in BOOLEAN,
        over \in {0, 1}, words \in {19, 20}, uniq \in {5, 6}, enc \in BOOLEAN}

InitPreValidate ==
    /\ hashes = <<>>
    /\ call_files = {}
    /\ calls_db = <<>>
    /\ scores_csv = <<>>
    /\ agent_performance = <<>>
    /\ clock = 0
    /\ pc = "pre_validate"
    /\ \E t \in PreValidationInputs : st = InitialState("text", Some(t), "")
    /\ ext = <<>>
    /\ trace = <<>>
    /\ before = [hashes |-> <<>>, call_files |-> {}, calls_db |-> <<>>,
                 scores_csv |-> <<>>, agent_performance |-> <<>>]
    /\ earlier = {}
    /\ runs = 1
    /\ workers = <<>>

\* pre_validation_error = self._pre_validate_transcript(transcript)
PreValidate ==
    /\ pc = "pre_validate"
    /\ st' = [st EXCEPT !.error = PreValidateTranscript(Val(st.transcript))]
    /\ pc' = "end"
    /\ UNCHANGED <<files, clock, ext, trace, before, earlier, runs>>
    /\ UNCHANGED workers

SpecPreValidate == InitPreValidate /\ [][PreValidate]_vars

\* The checks in their order, each with the reason it gives.
CheckList(t) ==
    <<[fails |-> t.slen < 50, reason |-> ErrTooShort],
      [fails |-> t.slen > 100000, reason |-> ErrTooLong],
      [fails |-> ~t.pattern /\ t.terms < 3, reason |-> ErrNoDialogue],
      [fails |-> t.music, reason |-> ErrMusic],
      [fails |-> 100 * t.special > 30 * t.len, reason |-> ErrGibberish],
      [fails |-> t.words < 20, reason |-> ErrFewWords],
      [fails |-> t.words > 10 /\ 100 * t.uniq < 30 * t.words, reason |-> ErrSpam],
      [fails |-> ~t.enc, reason |-> ErrEncoding]>>
Failing(t) == {i \in DOMAIN CheckList(t) : CheckList(t)[i].fails}

\* C32: the pre-validation returns the reason of the first failing check in
\* the fixed order (length, dialogue pattern, music, special characters,
\* word count, repetition, encoding), and none exactly when no check fails.
C32_FirstFailingCheck ==
    pc = "end" =>
        LET t == Val(st.transcript)
            failing == Failing(t)
        IN  IF failing = {} THEN st.error = NONE
            ELSE LET first == CHOOSE i \in failing : \A j \in failing : i <= j
                 IN  st.error = CheckList(t)[first].reason
C32_Witness ==
    /\ pc = "end"
    /\ Cardinality(Failing(Val(st.transcript))) >= 3
    /\ st.error = ErrMusic

\* ------------------------------------------------------------------------
\* The turn extraction of the run did not give a well-formed answer: the
\* call or the JSON parse raised, or the parsed conversation is no text.
ExtractionMalformed ==
    \E i \in DOMAIN ext :
        /\ ext[i].cap = "turn_extraction"
        /\ (ext[i].answer.failed \/ ext[i].answer.result.conversation = NONE)

\* C33: a failed or malformed turn extraction never fails the call: Intake
\* produces CallData with the raw transcript as conversation and no turns,
\* sets no error and records the fingerprint.
C33_AsClaimed ==
    (ExtractionMalformed /\ RanNode("call_intake")) =>
        /\ st.error \notin {ErrIntake}
        /\ st.call_data # Nothing
        /\ Val(st.call_data).conversation = Val(st.transcript).raw
        /\ Val(st.call_data).conversation_turns = <<>>
        /\ Registered(hashes, ComputeTranscriptHash(Val(st.transcript)))

\* ------------------------------------------------------------------------
TranscriptionErrors == {ErrNoPath, ErrNotFound, ErrFormat, ErrTranscription}

\* C34: a run whose transcription failed has the error set, passes the
\* safety check without asking moderation, goes from there to the end, runs
\* no later stage and leaves the store and the registry as they were.
C34_TranscriptionFailure ==
    /\ (st.input_type = "audio" /\ RanNode("transcription") /\ st.transcript = Nothing) =>
            st.error \in TranscriptionErrors
    /\ (st.error \in TranscriptionErrors) =>
            /\ ~Invoked("moderation")
            /\ files = <<before.hashes, before.call_files, before.calls_db,
                         before.scores_csv, before.agent_performance>>
            /\ pc \in {"content_safety", "end"}
            /\ trace \in {<<"transcription">>, <<"transcription", "content_safety">>}
            /\ pc = "end" <=> RanNode("content_safety")
C34_Witness ==
    /\ Finished
    /\ st.error = ErrTranscription
    /\ RanNode("content_safety")
    /\ before.calls_db # <<>>

\* ------------------------------------------------------------------------
\* workflow.invoke runs the graph until END: a stage that can run does run.
\* (A capability call returns or raises; none is taken to hang.)
Stage ==
    \/ Transcription
    \/ ContentSafety
    \/ CallIntake
    \/ Summarization
    \/ QualityScoring
    \/ DataStorage
SpecFair == Spec /\ WF_vars(Stage)

Rank(n) ==
    CASE n = "transcription" -> 1
      [] n = "content_safety" -> 2
      [] n = "call_intake" -> 3
      [] n = "summarization" -> 4
      [] n = "quality_scoring" -> 5
      [] n = "data_storage" -> 6
      [] OTHER -> 7
ForwardOnly ==
    /\ \A i, j \in DOMAIN trace : i < j => Rank(trace[i]) < Rank(trace[j])
    /\ (trace # <<>> /\ pc # "idle") => Rank(trace[Len(trace)]) < Rank(pc)
    /\ (trace # <<>>) => (RanNode("transcription") <=> st.input_type = "audio")
    /\ (pc = "transcription") => (trace = <<>> /\ st.input_type = "audio")

\* C35: every run reaches the end, having executed each stage at most once
\* and in the forward order transcription, content_safety, call_intake,
\* summarization, quality_scoring, data_storage; transcription is executed
\* exactly for audio input.
C35_ForwardToEnd ==
    /\ []ForwardOnly
    /\ (pc # "idle") ~> (pc = "end")
C35_Witness ==
    /\ Finished
    /\ trace = <<"transcription", "content_safety", "call_intake", "summarization",
                 "quality_scoring", "data_storage">>
    /\ runs = 2

\* ------------------------------------------------------------------------
Capabilities ==
    <<"speech_to_text", "moderation", "semantic_validation", "turn_extraction",
      "summarization", "scoring">>
CapabilityRank(cap) == CHOOSE k \in DOMAIN Capabilities : Capabilities[k] = cap

\* C36: within one run each external capability is invoked at most once, the
\* invocations follow one another in the order of the stages, and the turn
\* extraction is invoked only after the semantic validation answered valid.
C36_OneCallPerCapability ==
    /\ \A i \in DOMAIN ext : \E k \in DOMAIN Capabilities : ext[i].cap = Capabilities[k]
    /\ \A k \in DOMAIN Capabilities : Invocations(Capabilities[k]) <= 1
    /\ \A i, j \in DOMAIN ext :
        i < j => CapabilityRank(ext[i].cap) < CapabilityRank(ext[j].cap)
    /\ \A j \in DOMAIN ext :
        ext[j].cap = "turn_extraction" =>
            \E i \in 1..(j - 1) :
                /\ ext[i].cap = "semantic_validation"
                /\ ValidateAndExtractMetadata(ext[i].answer).is_valid
C36_Witness ==
    /\ Finished
    /\ Len(ext) = 6
    /\ st.error = NONE

C38_AsClaimed ==
    RunCommitted =>
        /\ st.needs_manual_review = Committed.needs_manual_review
        /\ st.needs_manual_review = LastEntry.needs_manual_review

\* ------------------------------------------------------------------------
\* C39: between runs, also after a run in which a write of the storage stage
\* failed, every agent's total_calls is the number of its ledger rows, and
\* every ledger row's call has an index entry and a record file.
C39_AsClaimed ==
    pc \in {"idle", "end"} =>
        /\ \A agent \in AggregateAgents :
            TotalCalls(agent_performance, agent) = Cardinality(LedgerRows(agent))
        /\ \A i \in DOMAIN scores_csv :
            /\ scores_csv[i].call_id \in StoredIds
            /\ \E j \in DOMAIN calls_db : calls_db[j].call_id = scores_csv[i].call_id

\* ------------------------------------------------------------------------
\* C40: every normal (non-flagged) record file has a summary, so a quality
\* score is stored only next to a summary; a run that committed a normal
\* record is a run whose summarization succeeded.
NormalRecords == {f \in call_files : "status" \notin DOMAIN f}
C40_NormalRecordsHaveSummary ==
    /\ \A f \in NormalRecords :
        /\ IsSome(f.summary)
        /\ IsSome(f.quality_score) => IsSome(f.summary)
    /\ (RunCommitted /\ st.content_safety_passed) =>
        /\ IsSome(st.summary)
        /\ Logged({"Summarization: Call summary generated"})
\* A normal record is in the store after an earlier run's summarization failed
\* and stored nothing, and the current run has committed a normal record.
C40_Witness ==
    /\ RunCommitted
    /\ st.content_safety_passed
    /\ Cardinality(NormalRecords) = 1
    /\ runs = 2
    /\ \E f \in NormalRecords : IsSome(f.summary) /\ f.quality_score = Nothing

====
